---- MODULE Spec2Model ----
(***************************************************************************)
(* A model of src/src/entities/player.ts: the Player objects of one client *)
(* (one locally controlled, one mirrored), the DOM elements they query     *)
(* (.player, .bomb, .block, .powerup, .green-space), the two module-level  *)
(* flags and every pending setTimeout callback that changes game state.    *)
(*                                                                         *)
(* Time is kept as the remaining delay of each pending timer.  Tick lets   *)
(* time pass up to the next deadline (at most MaxStep milliseconds); a     *)
(* timer whose remaining delay is 0 must run before time passes again, and *)
(* timers due at the same instant run in any order.  Inputs arrive at any  *)
(* of these instants.  Purely visual timers (explosion sprites, the        *)
(* 'hit' class, the floating notification, the spawn indicator) change no  *)
(* state that any code reads and are not modelled.                         *)
(*                                                                         *)
(* The event bus is synchronous: a handler's nested emits run inside the   *)
(* step of the handler.  Handlers are therefore operators on a record w    *)
(* that holds the whole state, and one action applies one top-level        *)
(* invocation.  out is what the last step emitted on the bus, sent to the  *)
(* relay and rendered, in program order.                                   *)
(***************************************************************************)
EXTENDS Integers, Sequences, FiniteSets, TLC

VARIABLES
    player,            \* id -> the Player object's fields
    bombs,             \* the .bomb elements, each with its pending fuse
    blocks,            \* the .block elements (style.left, style.top)
    blockRemovals,     \* pending blockEl.remove() timers
    spawnTimers,       \* pending power-up spawn rolls, in creation order
    powerups,          \* the .powerup elements, in document order
    greenSpaces,       \* the .green-space elements
    cooldownTimers,    \* id -> pending bombCooldown resets
    removeTimers,      \* id -> pending player element removals
    isGamePaused,      \* player.ts:10
    isGameOver,        \* player.ts:11
    out                \* outputs of the last step

vars == <<player, bombs, blocks, blockRemovals, spawnTimers, powerups,
          greenSpaces, cooldownTimers, removeTimers, isGamePaused,
          isGameOver, out>>

(***************************************************************************)
(* Program constants                                                       *)
(***************************************************************************)
GRID_WIDTH == 14
GRID_HEIGHT == 16
TILE_SIZE == 40       \* game/constants is not part of src; 40 is the tile of the style sheet
initialLives == 3
initialSpeed == 3
initialBombCapacity == 1
initialExplosionRange == 1
invulnerabilityDuration == 2000
bombCooldownTime == 1000
fuseDuration == 2000
removeElementDelay == 500
blockRemoveDelay == 500
spawnDelay == 400
NoTimer == -1

(***************************************************************************)
(* Bounds of the model                                                     *)
(***************************************************************************)
ArenaWidth == 3       \* in the timed specifications the local player stays in columns <= this
MaxRadius == 3        \* radii passed to a direct createExplosion call
MaxStat == 2          \* bombCapacity and explosionRange are raised to at most this
MaxExtraLives == 1    \* lives are raised to at most initialLives + this
MaxOverkill == 1      \* lives are lowered to at least -this
MaxPowerups == 2      \* .powerup elements present at once

Players == {"p1", "p2"}
PlayerOrder == <<"p1", "p2">>       \* construction (= subscription = DOM) order
storedPlayerId == "p1"              \* localStorage.getItem('playerId')
NoId == "none"                      \* an absent (falsy) id in event data
UnknownId == "p9"                   \* an id no Player object has

\* Time passes up to the next timer deadline, and by at most MaxStep at once.
MaxStep == bombCooldownTime

(***************************************************************************)
(* Cell <-> pixel conversion                                               *)
(***************************************************************************)
\* `${c * TILE_SIZE}px`
PxOf(c) == c * TILE_SIZE
\* Math.floor(parseInt(style.left) / TILE_SIZE)
CellOfPx(px) == px \div TILE_SIZE

Dirs == <<[dx |-> 0, dy |-> -1, name |-> "up"],
          [dx |-> 1, dy |-> 0, name |-> "right"],
          [dx |-> 0, dy |-> 1, name |-> "down"],
          [dx |-> -1, dy |-> 0, name |-> "left"]>>

\* the bounds of the model, on the state a step leads to
Bounded ==
    /\ \A p \in Players :
         /\ player[p].bombCapacity <= MaxStat
         /\ player[p].explosionRange <= MaxStat
         /\ player[p].speed \in {2 * initialSpeed, 2 * initialSpeed + 1}
         /\ player[p].lives <= initialLives + MaxExtraLives
         /\ player[p].lives >= 0 - MaxOverkill
    /\ Len(powerups) <= MaxPowerups

World == [player |-> player, bombs |-> bombs, blocks |-> blocks,
          blockRemovals |-> blockRemovals, spawnTimers |-> spawnTimers,
          powerups |-> powerups, greenSpaces |-> greenSpaces,
          cooldownTimers |-> cooldownTimers, removeTimers |-> removeTimers,
          isGamePaused |-> isGamePaused, isGameOver |-> isGameOver,
          out |-> <<>>]

Apply(w) ==
    /\ player' = w.player
    /\ bombs' = w.bombs
    /\ blocks' = w.blocks
    /\ blockRemovals' = w.blockRemovals
    /\ spawnTimers' = w.spawnTimers
    /\ powerups' = w.powerups
    /\ greenSpaces' = w.greenSpaces
    /\ cooldownTimers' = w.cooldownTimers
    /\ removeTimers' = w.removeTimers
    /\ isGamePaused' = w.isGamePaused
    /\ isGameOver' = w.isGameOver
    /\ out' = w.out
    /\ Bounded'

\* eventBus.emit / sendToServer / a rendered element, appended to the step's outputs
emit(w, e) == [w EXCEPT !.out = Append(@, e)]

isLocalPlayer(self) == self = storedPlayerId

(***************************************************************************)
(* Damage and elimination                                                  *)
(***************************************************************************)
removePlayerElement(w, self) ==
    IF w.player[self].playerElement.attached
    THEN [w EXCEPT !.removeTimers[self] = @ \cup {removeElementDelay}]
    ELSE w

\* a faulty variant of setInvulnerable: the timer is started, the flag is
\* not set
setInvulnerableTimerOnly(w, self) ==
    emit([w EXCEPT !.player[self].invulnerabilityTimer = invulnerabilityDuration],
         [ch |-> "bus", t |-> "player:invulnerabilityStart", id |-> self])

\* a faulty variant of setInvulnerable: the flag is set, no timer is started
setInvulnerableNoTimer(w, self) ==
    emit([w EXCEPT !.player[self].invulnerable = TRUE],
         [ch |-> "bus", t |-> "player:invulnerabilityStart", id |-> self])

setInvulnerable(w, self) ==
    LET w1 == [w EXCEPT !.player[self].invulnerable = TRUE,
                        !.player[self].invulnerabilityTimer = invulnerabilityDuration]
    IN emit(w1, [ch |-> "bus", t |-> "player:invulnerabilityStart", id |-> self])

\* a faulty variant of attackerOr: data.attackerId as it came, no default
attackerAsSupplied(data, self) == data.attackerId

\* data.attackerId || this.id
attackerOr(data, self) == IF data.attackerId = NoId THEN self ELSE data.attackerId

\* handleHit past its two guards, player.ts:762-823
applyDamage(w, self, data) ==
      LET w1 == [w EXCEPT !.player[self].lives = @ - 1]
          w2 == emit(w1, [ch |-> "bus", t |-> "player:damaged", id |-> self,
                          livesRemaining |-> w1.player[self].lives])
          w3 == emit(w2, [ch |-> "relay", t |-> "PLAYER_HIT", playerId |-> self,
                          attackerId |-> attackerOr(data, self)])
          w4 == setInvulnerable(w3, self)
      IN IF w4.player[self].lives <= 0
         THEN
           LET w5 == removePlayerElement(w4, self)
               w6 == emit(w5, [ch |-> "bus", t |-> "player:eliminated", id |-> self,
                               eliminatedBy |-> attackerOr(data, self)])
               w7 == emit(w6, [ch |-> "relay", t |-> "player_eliminated",
                               playerId |-> self,
                               attackerId |-> attackerOr(data, self),
                               forceBroadcast |-> FALSE])
           IN IF data.attackerId = self
              THEN emit(w7, [ch |-> "relay", t |-> "PLAYER_ELIMINATED",
                             playerId |-> self, attackerId |-> self,
                             forceBroadcast |-> TRUE])
              ELSE w7
         ELSE w4

\* a faulty variant of handleHit: the addressee of the event is not compared
handleHitAnyTarget(w, self, data) ==
    IF w.player[self].invulnerable THEN w
    ELSE applyDamage(w, self, data)

\* a faulty variant of handleHit: no invulnerability guard
handleHitUnguarded(w, self, data) ==
    IF data.playerId # self THEN w
    ELSE applyDamage(w, self, data)

handleHit(w, self, data) ==
    IF data.playerId # self THEN w
    ELSE IF w.player[self].invulnerable THEN w
    ELSE applyDamage(w, self, data)

\* eventBus.emit('player:hit', data): every Player object's handleHit, in
\* subscription order
RECURSIVE publishHitFrom(_, _, _)
publishHitFrom(w, i, data) ==
    IF i > Len(PlayerOrder) THEN w
    ELSE publishHitFrom(handleHit(w, PlayerOrder[i], data), i + 1, data)

publishHit(w, data) ==
    publishHitFrom(emit(w, [ch |-> "bus", t |-> "player:hit",
                            playerId |-> data.playerId,
                            attackerId |-> data.attackerId]), 1, data)

(***************************************************************************)
(* Explosion propagation                                                   *)
(***************************************************************************)
\* a faulty variant of isValidExplosionPosition: the bounds of movement
isValidExplosionPositionMoveBounds(x, y) ==
    IF x < 0 \/ y < 0 \/ x >= GRID_WIDTH \/ y >= GRID_HEIGHT THEN FALSE
    ELSE IF x % 2 = 0 /\ y % 2 = 0 THEN FALSE
    ELSE IF x = 0 \/ y = 0 THEN FALSE
    ELSE TRUE

\* a faulty variant of isValidExplosionPosition: no parity wall check
isValidExplosionPositionNoParity(x, y) ==
    IF x < 0 \/ y < 0 \/ x > GRID_WIDTH \/ y > GRID_HEIGHT THEN FALSE
    ELSE IF x = 0 \/ y = 0 THEN FALSE
    ELSE TRUE

isValidExplosionPosition(x, y) ==
    IF x < 0 \/ y < 0 \/ x > GRID_WIDTH \/ y > GRID_HEIGHT THEN FALSE
    ELSE IF x % 2 = 0 /\ y % 2 = 0 THEN FALSE
    ELSE IF x = 0 \/ y = 0 THEN FALSE
    ELSE TRUE

\* a faulty variant of redBlocksAt: the row is not compared
redBlocksAtColumn(w, x, y) ==
    {b \in w.blocks : CellOfPx(b.left) = x}

\* document.querySelectorAll('.block') filtered to the cell (x, y)
redBlocksAt(w, x, y) ==
    {b \in w.blocks : CellOfPx(b.left) = x /\ CellOfPx(b.top) = y}

\* the body of redBlocks.forEach for one block element
destroyOneBlock(w, self, blockEl, x, y) ==
    LET w1 == [w EXCEPT !.blockRemovals = @ \cup
                  {[left |-> blockEl.left, top |-> blockEl.top,
                    rem |-> blockRemoveDelay]}]
        w2 == emit(w1, [ch |-> "bus", t |-> "block:destroyed", x |-> x, y |-> y])
        w3 == IF isLocalPlayer(self)
              THEN emit(w2, [ch |-> "relay", t |-> "BLOCK_DESTROYED",
                             x |-> x, y |-> y])
              ELSE w2
        w4 == [w3 EXCEPT !.spawnTimers =
                  Append(@, [x |-> x, y |-> y, rem |-> spawnDelay])]
    IN emit(w4, [ch |-> "timer", t |-> "spawn:scheduled", x |-> x, y |-> y])

RECURSIVE destroyEach(_, _, _, _, _)
destroyEach(w, self, els, x, y) ==
    IF els = {} THEN w
    ELSE LET blockEl == CHOOSE b \in els : TRUE
         IN destroyEach(destroyOneBlock(w, self, blockEl, x, y), self,
                        els \ {blockEl}, x, y)

\* a faulty variant of destroyBlockAt: the result is always false
destroyBlockAtKeepGoing(w, self, x, y, destroyedBlocks) ==
    IF <<x, y>> \in destroyedBlocks \/ redBlocksAt(w, x, y) = {}
    THEN [w |-> w, destroyedBlocks |-> destroyedBlocks, destroyed |-> FALSE]
    ELSE [w |-> destroyEach(w, self, redBlocksAt(w, x, y), x, y),
          destroyedBlocks |-> destroyedBlocks \cup {<<x, y>>},
          destroyed |-> FALSE]

\* returns the new state, the explosion's destroyedBlocks set and the result
destroyBlockAt(w, self, x, y, destroyedBlocks) ==
    IF <<x, y>> \in destroyedBlocks
    THEN [w |-> w, destroyedBlocks |-> destroyedBlocks, destroyed |-> FALSE]
    ELSE IF redBlocksAt(w, x, y) # {}
    THEN [w |-> destroyEach(w, self, redBlocksAt(w, x, y), x, y),
          destroyedBlocks |-> destroyedBlocks \cup {<<x, y>>},
          destroyed |-> TRUE]
    ELSE [w |-> w, destroyedBlocks |-> destroyedBlocks, destroyed |-> FALSE]

\* document.querySelectorAll('.player').forEach, in document order
RECURSIVE checkPlayerHitFrom(_, _, _, _, _)
checkPlayerHitFrom(w, self, i, x, y) ==
    IF i > Len(PlayerOrder) THEN w
    ELSE
      LET playerId == PlayerOrder[i]
          el == w.player[playerId].playerElement
      IN IF el.attached /\ CellOfPx(el.left) = x /\ CellOfPx(el.top) = y
         THEN checkPlayerHitFrom(
                  publishHit(w, [playerId |-> playerId, attackerId |-> self]),
                  self, i + 1, x, y)
         ELSE checkPlayerHitFrom(w, self, i + 1, x, y)

\* a faulty variant of checkPlayerHit: the detonating player's own element
\* is passed over
RECURSIVE checkOthersHitFrom(_, _, _, _, _)
checkOthersHitFrom(w, self, i, x, y) ==
    IF i > Len(PlayerOrder) THEN w
    ELSE
      LET playerId == PlayerOrder[i]
          el == w.player[playerId].playerElement
      IN IF playerId # self /\ el.attached
            /\ CellOfPx(el.left) = x /\ CellOfPx(el.top) = y
         THEN checkOthersHitFrom(
                  publishHit(w, [playerId |-> playerId, attackerId |-> self]),
                  self, i + 1, x, y)
         ELSE checkOthersHitFrom(w, self, i + 1, x, y)

checkPlayerHitOthersOnly(w, self, x, y) == checkOthersHitFrom(w, self, 1, x, y)

checkPlayerHit(w, self, x, y) == checkPlayerHitFrom(w, self, 1, x, y)

\* a faulty variant of explodeCenter: the origin cell is rendered and its
\* block destroyed, no player is looked for there
explodeCenterBlocksOnly(w, self, x, y) ==
    LET w0 == emit(w, [ch |-> "dom", t |-> "explosion", x |-> x, y |-> y,
                       dir |-> "center", by |-> self])
        d  == destroyBlockAt(w0, self, x, y, {})
    IN [w |-> d.w, destroyedBlocks |-> d.destroyedBlocks]

\* createExplosion, lines 1027-1045: the origin cell
explodeCenter(w, self, x, y) ==
    LET w0 == emit(w, [ch |-> "dom", t |-> "explosion", x |-> x, y |-> y,
                       dir |-> "center", by |-> self])
        d  == destroyBlockAt(w0, self, x, y, {})
        w1 == checkPlayerHit(d.w, self, x, y)
        w2 == IF isLocalPlayer(self)
                 /\ w1.player[self].x = x /\ w1.player[self].y = y
              THEN publishHit(w1, [playerId |-> self, attackerId |-> self])
              ELSE w1
    IN [w |-> w2, destroyedBlocks |-> d.destroyedBlocks]

\* createExplosion, lines 1057-1122: one direction's for loop, from step i
RECURSIVE explodeRay(_, _, _, _, _, _, _, _)
explodeRay(w, self, x, y, dir, i, radius, destroyedBlocks) ==
    LET explosionX == x + dir.dx * i
        explosionY == y + dir.dy * i
    IN IF i > radius
       THEN [w |-> w, destroyedBlocks |-> destroyedBlocks]
       ELSE IF ~isValidExplosionPosition(explosionX, explosionY)
       THEN [w |-> w, destroyedBlocks |-> destroyedBlocks]
       ELSE
         LET w0 == emit(w, [ch |-> "dom", t |-> "explosion", x |-> explosionX,
                            y |-> explosionY, dir |-> dir.name, by |-> self])
             d  == destroyBlockAt(w0, self, explosionX, explosionY, destroyedBlocks)
             w1 == checkPlayerHit(d.w, self, explosionX, explosionY)
             w2 == IF isLocalPlayer(self)
                      /\ w1.player[self].x = explosionX
                      /\ w1.player[self].y = explosionY
                   THEN emit(publishHit(w1, [playerId |-> self, attackerId |-> self]),
                             [ch |-> "relay", t |-> "PLAYER_HIT", playerId |-> self,
                              attackerId |-> self])
                   ELSE w1
         IN IF d.destroyed
            THEN [w |-> w2, destroyedBlocks |-> d.destroyedBlocks]
            ELSE explodeRay(w2, self, x, y, dir, i + 1, radius, d.destroyedBlocks)

RECURSIVE explodeDirs(_, _, _, _, _, _, _)
explodeDirs(w, self, x, y, k, radius, destroyedBlocks) ==
    IF k > Len(Dirs) THEN w
    ELSE LET r == explodeRay(w, self, x, y, Dirs[k], 1, radius, destroyedBlocks)
         IN explodeDirs(r.w, self, x, y, k + 1, radius, r.destroyedBlocks)

\* the first output is the call itself, with the radius it was given and
\* what the caller's counter and the cell's .bomb elements are at the call
createExplosion(w, self, x, y, radius) ==
    LET w0 == emit(w, [ch |-> "call", t |-> "createExplosion", by |-> self,
                       x |-> x, y |-> y, radius |-> radius,
                       activeBombs |-> w.player[self].activeBombs,
                       bombsHere |-> Cardinality({b \in w.bombs :
                                        /\ CellOfPx(b.left) = x
                                        /\ CellOfPx(b.top) = y})])
        c == explodeCenter(w0, self, x, y)
    IN explodeDirs(c.w, self, x, y, 1, radius, c.destroyedBlocks)

(***************************************************************************)
(* Power-ups and stats                                                     *)
(***************************************************************************)
emitStatsUpdate(w, self) ==
    emit(w, [ch |-> "bus", t |-> "player:statsUpdate", id |-> self,
             bombCapacity |-> w.player[self].bombCapacity,
             explosionRange |-> w.player[self].explosionRange,
             speed |-> w.player[self].speed,
             lives |-> w.player[self].lives])

\* speed is kept in half cells per second: speed += 0.5 adds one
handlePowerUp(w, self, data) ==
    IF data.playerId # self THEN w
    ELSE IF data.source # "visual_verification" THEN w
    ELSE CASE data.type = "bomb" ->
                emitStatsUpdate([w EXCEPT !.player[self].bombCapacity = @ + 1], self)
           [] data.type = "flame" ->
                emitStatsUpdate([w EXCEPT !.player[self].explosionRange = @ + 1], self)
           [] data.type = "speed" ->
                emitStatsUpdate([w EXCEPT !.player[self].speed = @ + 1], self)
           [] data.type = "extraLife" ->
                emitStatsUpdate([w EXCEPT !.player[self].lives = @ + 1], self)
           [] OTHER -> w

\* eventBus.emit('powerup:applied', data)
RECURSIVE publishPowerUpFrom(_, _, _)
publishPowerUpFrom(w, i, data) ==
    IF i > Len(PlayerOrder) THEN w
    ELSE publishPowerUpFrom(handlePowerUp(w, PlayerOrder[i], data), i + 1, data)

publishPowerUp(w, data) ==
    publishPowerUpFrom(emit(w, [ch |-> "bus", t |-> "powerup:applied",
                                playerId |-> data.playerId, type |-> data.type,
                                source |-> data.source]), 1, data)

\* data.value is 0 when the event carries no (or no positive) value; the
\* PowerUpType members are written as the strings handlePowerUp converts
handleStatUpdate(w, self, data) ==
    IF data.playerId # self THEN w
    ELSE
      LET w1 ==
            CASE data.type \in {"bombCapacity", "bomb"} ->
                   [w EXCEPT !.player[self].bombCapacity =
                       IF data.value > 0 THEN data.value ELSE @ + 1]
              [] data.type \in {"explosionRange", "flame"} ->
                   [w EXCEPT !.player[self].explosionRange =
                       IF data.value > 0 THEN data.value ELSE @ + 1]
              [] data.type = "speed" ->
                   [w EXCEPT !.player[self].speed =
                       IF data.value > 0 THEN 2 * data.value ELSE @ + 1]
              [] data.type = "extraLife" ->
                   [w EXCEPT !.player[self].lives = @ + 1]
              [] OTHER -> w
      IN emitStatsUpdate(w1, self)

\* eventBus.emit('stat:updated', data)
RECURSIVE publishStatFrom(_, _, _)
publishStatFrom(w, i, data) ==
    IF i > Len(PlayerOrder) THEN w
    ELSE publishStatFrom(handleStatUpdate(w, PlayerOrder[i], data), i + 1, data)

publishStat(w, data) ==
    publishStatFrom(emit(w, [ch |-> "bus", t |-> "stat:updated",
                             playerId |-> data.playerId, type |-> data.type,
                             value |-> data.value]), 1, data)

\* powerUpElements.forEach of checkForVisiblePowerUp, from element i of the
\* static list els; found is foundPowerUp
RECURSIVE collectFrom(_, _, _, _, _, _, _)
collectFrom(w, self, els, i, gridX, gridY, found) ==
    IF i > Len(els) THEN [w |-> w, found |-> found]
    ELSE
      LET el == els[i]
      IN IF CellOfPx(el.left) = gridX /\ CellOfPx(el.top) = gridY /\ ~found
         THEN
           LET k  == CHOOSE j \in 1..Len(w.powerups) : w.powerups[j] = el
               w1 == [w EXCEPT !.powerups =
                         SubSeq(@, 1, k - 1) \o SubSeq(@, k + 1, Len(@))]
               w2 == emit(w1, [ch |-> "relay", t |-> "COLLECT_POWERUP",
                               playerId |-> self, powerupType |-> el.type,
                               x |-> gridX, y |-> gridY])
               w3 == publishPowerUp(w2, [playerId |-> self, type |-> el.type,
                                         source |-> "visual_verification"])
               w4 == emit(w3, [ch |-> "bus", t |-> "powerup:collected",
                               playerId |-> self, type |-> el.type,
                               x |-> gridX, y |-> gridY])
           IN collectFrom(w4, self, els, i + 1, gridX, gridY, TRUE)
         ELSE collectFrom(w, self, els, i + 1, gridX, gridY, found)

\* checkAndCollectPowerUp of the power-up module: it cleans up that module's
\* own record of the collected power-up, which no code of the player reads
checkAndCollectPowerUp(w, gridX, gridY, self) == w

checkForVisiblePowerUp(w, self) ==
    IF Len(w.powerups) = 0 THEN w
    ELSE LET c == collectFrom(w, self, w.powerups, 1,
                              w.player[self].x, w.player[self].y, FALSE)
         IN IF c.found
            THEN checkAndCollectPowerUp(c.w, w.player[self].x, w.player[self].y, self)
            ELSE c.w

(***************************************************************************)
(* Movement                                                                *)
(***************************************************************************)
\* a faulty variant of isValidPosition: no border wall check
isValidPositionNoBorder(w, x, y) ==
    IF x < 0 \/ y < 0 \/ x >= GRID_WIDTH \/ y >= GRID_HEIGHT THEN FALSE
    ELSE IF x % 2 = 0 /\ y % 2 = 0 THEN FALSE
    ELSE IF \E g \in w.greenSpaces : CellOfPx(g.left) = x /\ CellOfPx(g.top) = y
    THEN TRUE
    ELSE IF \E b \in w.blocks : CellOfPx(b.left) = x /\ CellOfPx(b.top) = y
    THEN FALSE
    ELSE IF \E b \in w.bombs : CellOfPx(b.left) = x /\ CellOfPx(b.top) = y
    THEN FALSE
    ELSE TRUE

\* a faulty variant of isValidPosition: no parity wall check
isValidPositionNoParity(w, x, y) ==
    IF x < 0 \/ y < 0 \/ x >= GRID_WIDTH \/ y >= GRID_HEIGHT THEN FALSE
    ELSE IF x = 0 \/ y = 0 THEN FALSE
    ELSE IF \E g \in w.greenSpaces : CellOfPx(g.left) = x /\ CellOfPx(g.top) = y
    THEN TRUE
    ELSE IF \E b \in w.blocks : CellOfPx(b.left) = x /\ CellOfPx(b.top) = y
    THEN FALSE
    ELSE IF \E b \in w.bombs : CellOfPx(b.left) = x /\ CellOfPx(b.top) = y
    THEN FALSE
    ELSE TRUE

isValidPosition(w, x, y) ==
    IF x < 0 \/ y < 0 \/ x >= GRID_WIDTH \/ y >= GRID_HEIGHT THEN FALSE
    ELSE IF x % 2 = 0 /\ y % 2 = 0 THEN FALSE
    ELSE IF x = 0 \/ y = 0 THEN FALSE
    ELSE IF \E g \in w.greenSpaces : CellOfPx(g.left) = x /\ CellOfPx(g.top) = y
    THEN TRUE
    ELSE IF \E b \in w.blocks : CellOfPx(b.left) = x /\ CellOfPx(b.top) = y
    THEN FALSE
    ELSE IF \E b \in w.bombs : CellOfPx(b.left) = x /\ CellOfPx(b.top) = y
    THEN FALSE
    ELSE TRUE

updateVisualPosition(w, self) ==
    IF w.player[self].playerElement.attached
    THEN [w EXCEPT !.player[self].playerElement.left = PxOf(w.player[self].x),
                   !.player[self].playerElement.top = PxOf(w.player[self].y)]
    ELSE w

emitPositionUpdate(w, self) ==
    emit(w, [ch |-> "bus", t |-> "player:moved", id |-> self,
             x |-> w.player[self].x, y |-> w.player[self].y])

\* a faulty variant of setPosition: the new cell is searched for power-ups
setPositionCollecting(w, self, x, y) ==
    checkForVisiblePowerUp(
        emitPositionUpdate(
            updateVisualPosition([w EXCEPT !.player[self].x = x,
                                           !.player[self].y = y], self), self),
        self)

setPosition(w, self, x, y) ==
    emitPositionUpdate(
        updateVisualPosition([w EXCEPT !.player[self].x = x,
                                       !.player[self].y = y], self), self)

(***************************************************************************)
(* Bomb lifecycle                                                          *)
(* A bomb element carries its owner and cell (the closure of the fuse      *)
(* callback) and range, the explosionRange announced at placement, which   *)
(* the fuse callback does not read.                                        *)
(***************************************************************************)
\* placeBomb past its guards, player.ts:927-994
armBomb(w, self) ==
    LET gridX == w.player[self].x
        gridY == w.player[self].y
    IN   LET w1 == [w EXCEPT
                      !.bombs = @ \cup {[owner |-> self, gridX |-> gridX,
                                         gridY |-> gridY, left |-> PxOf(gridX),
                                         top |-> PxOf(gridY),
                                         range |-> w.player[self].explosionRange,
                                         fuse |-> fuseDuration]},
                      !.player[self].activeBombs = @ + 1,
                      !.player[self].bombCooldown = TRUE,
                      !.cooldownTimers[self] = @ \cup {bombCooldownTime}]
             w2 == emit(w1, [ch |-> "relay", t |-> "DROP_BOMB", x |-> gridX,
                             y |-> gridY,
                             explosionRange |-> w1.player[self].explosionRange])
         IN emit(w2, [ch |-> "bus", t |-> "bomb:placed", playerId |-> self,
                      x |-> gridX, y |-> gridY,
                      range |-> w2.player[self].explosionRange])

\* a faulty variant of placeBomb: no check for a bomb already on the cell
placeBombAnywhere(w, self) ==
    IF ~w.player[self].playerElement.attached THEN w
    ELSE IF w.isGamePaused THEN w
    ELSE IF w.player[self].bombCooldown THEN w
    ELSE IF w.player[self].activeBombs >= w.player[self].bombCapacity THEN w
    ELSE armBomb(w, self)

\* a faulty variant of placeBomb: no capacity check
placeBombOverCapacity(w, self) ==
    IF ~w.player[self].playerElement.attached THEN w
    ELSE IF w.isGamePaused THEN w
    ELSE IF w.player[self].bombCooldown THEN w
    ELSE IF \E b \in w.bombs : /\ CellOfPx(b.left) = w.player[self].x
                               /\ CellOfPx(b.top) = w.player[self].y
    THEN w
    ELSE armBomb(w, self)

\* a faulty variant of placeBomb: no cooldown check
placeBombNoCooldown(w, self) ==
    IF ~w.player[self].playerElement.attached THEN w
    ELSE IF w.isGamePaused THEN w
    ELSE IF w.player[self].activeBombs >= w.player[self].bombCapacity THEN w
    ELSE IF \E b \in w.bombs : /\ CellOfPx(b.left) = w.player[self].x
                               /\ CellOfPx(b.top) = w.player[self].y
    THEN w
    ELSE armBomb(w, self)

placeBomb(w, self) ==
    LET gridX == w.player[self].x
        gridY == w.player[self].y
    IN IF ~w.player[self].playerElement.attached THEN w
       ELSE IF w.isGamePaused THEN w
       ELSE IF w.player[self].bombCooldown THEN w
       ELSE IF w.player[self].activeBombs >= w.player[self].bombCapacity THEN w
       ELSE IF \E b \in w.bombs : CellOfPx(b.left) = gridX /\ CellOfPx(b.top) = gridY
       THEN w
       ELSE armBomb(w, self)

\* a faulty variant of fuseExpired: the fuse does nothing while the game is
\* paused or over
fuseExpiredIfRunning(w, b) ==
    IF w.isGamePaused \/ w.isGameOver THEN w
    ELSE createExplosion([w EXCEPT !.bombs = @ \ {b},
                                   !.player[b.owner].activeBombs = @ - 1],
                         b.owner, b.gridX, b.gridY,
                         w.player[b.owner].explosionRange)

\* a faulty variant of fuseExpired: the explosion is created first, the bomb
\* removed and the counter decremented afterwards
fuseExpiredExplodeFirst(w, b) ==
    LET self == b.owner
        w1 == createExplosion(w, self, b.gridX, b.gridY, w.player[self].explosionRange)
    IN [w1 EXCEPT !.bombs = @ \ {b},
                  !.player[self].activeBombs = @ - 1]

\* the fuse callback of player.ts:985-994 for bomb element b
fuseExpired(w, b) ==
    LET self == b.owner
        w1 == [w EXCEPT !.bombs = @ \ {b},
                        !.player[self].activeBombs = @ - 1]
    IN createExplosion(w1, self, b.gridX, b.gridY, w1.player[self].explosionRange)

(***************************************************************************)
(* Keyboard                                                                *)
(***************************************************************************)
Keys == {"ArrowUp", "ArrowRight", "ArrowDown", "ArrowLeft", " "}

keyStep(key) ==
    CASE key = "ArrowUp"    -> [dx |-> 0, dy |-> -1, direction |-> "UP"]
      [] key = "ArrowRight" -> [dx |-> 1, dy |-> 0, direction |-> "RIGHT"]
      [] key = "ArrowDown"  -> [dx |-> 0, dy |-> 1, direction |-> "DOWN"]
      [] key = "ArrowLeft"  -> [dx |-> -1, dy |-> 0, direction |-> "LEFT"]

handleKeyDown(w, self, key) ==
    IF ~w.player[self].playerElement.attached THEN w
    ELSE IF w.isGamePaused \/ w.isGameOver THEN w
    ELSE IF key = " " THEN placeBomb(w, self)
    ELSE
      LET newX == w.player[self].x + keyStep(key).dx
          newY == w.player[self].y + keyStep(key).dy
          w1 == [w EXCEPT !.player[self].direction = keyStep(key).direction]
          w2 == IF isValidPosition(w1, newX, newY)
                THEN LET w3 == emitPositionUpdate(
                                 updateVisualPosition(
                                   [w1 EXCEPT !.player[self].x = newX,
                                              !.player[self].y = newY], self), self)
                     IN IF isLocalPlayer(self)
                        THEN checkForVisiblePowerUp(w3, self)
                        ELSE w3
                ELSE w1
      IN emit(w2, [ch |-> "relay", t |-> "MOVE", x |-> w2.player[self].x,
                   y |-> w2.player[self].y,
                   direction |-> w2.player[self].direction])

(***************************************************************************)
(* Timer callbacks and the passage of time                                 *)
(***************************************************************************)
cooldownExpired(w, self) ==
    [w EXCEPT !.player[self].bombCooldown = FALSE,
              !.cooldownTimers[self] = @ \ {0}]

invulnerabilityExpired(w, self) ==
    emit([w EXCEPT !.player[self].invulnerable = FALSE,
                   !.player[self].invulnerabilityTimer = NoTimer],
         [ch |-> "bus", t |-> "player:invulnerabilityEnd", id |-> self])

removeElementExpired(w, self) ==
    [w EXCEPT !.removeTimers[self] = @ \ {0},
              !.player[self].playerElement.attached = FALSE]

blockRemoveExpired(w, tm) ==
    [w EXCEPT !.blockRemovals = @ \ {tm},
              !.blocks = @ \ {[left |-> tm.left, top |-> tm.top]}]

\* the spawn callback; powerUp is maybeSpawnPowerup's result, NoId for none
spawnExpired(w, i, powerUp) ==
    LET tm == w.spawnTimers[i]
        w1 == [w EXCEPT !.spawnTimers =
                  SubSeq(@, 1, i - 1) \o SubSeq(@, i + 1, Len(@))]
        w2 == emit(w1, [ch |-> "call", t |-> "maybeSpawnPowerup", x |-> tm.x,
                        y |-> tm.y, result |-> powerUp])
    IN IF powerUp = NoId THEN w2
       ELSE [w2 EXCEPT !.powerups =
                Append(@, [left |-> PxOf(tm.x), top |-> PxOf(tm.y),
                           type |-> powerUp])]


\* the remaining delays of all pending timers
Remaining(w) ==
    ({b.fuse : b \in w.bombs} \cup {tm.rem : tm \in w.blockRemovals}
     \cup {w.spawnTimers[i].rem : i \in 1..Len(w.spawnTimers)}
     \cup UNION {w.cooldownTimers[p] : p \in Players}
     \cup UNION {w.removeTimers[p] : p \in Players}
     \cup {w.player[p].invulnerabilityTimer : p \in Players}) \ {NoTimer}

Elapse(w) ==
    LET next == CHOOSE r \in Remaining(w) : \A q \in Remaining(w) : r <= q
    IN IF next < MaxStep THEN next ELSE MaxStep

tick(w, d) ==
    [w EXCEPT
       !.bombs = {[b EXCEPT !.fuse = @ - d] : b \in @},
       !.blockRemovals = {[tm EXCEPT !.rem = @ - d] : tm \in @},
       !.spawnTimers = [i \in 1..Len(@) |-> [@[i] EXCEPT !.rem = @ - d]],
       !.cooldownTimers = [p \in Players |-> {r - d : r \in @[p]}],
       !.removeTimers = [p \in Players |-> {r - d : r \in @[p]}],
       !.player = [p \in Players |->
                     [@[p] EXCEPT !.invulnerabilityTimer =
                         IF @ = NoTimer THEN NoTimer ELSE @ - d]]]

(***************************************************************************)
(* The initial state: both Player objects constructed with a container,    *)
(* on a map with the given destructible blocks                             *)
(***************************************************************************)
newPlayer(startX, startY) ==
    [x |-> startX, y |-> startY, direction |-> "NONE",
     speed |-> 2 * initialSpeed, lives |-> initialLives,
     invulnerable |-> FALSE, invulnerabilityTimer |-> NoTimer,
     bombCapacity |-> initialBombCapacity,
     explosionRange |-> initialExplosionRange,
     bombCooldown |-> FALSE, activeBombs |-> 0,
     playerElement |-> [attached |-> TRUE, left |-> PxOf(startX),
                        top |-> PxOf(startY)]]

elementAt(x, y) == [left |-> PxOf(x), top |-> PxOf(y)]

InitWith(localCells, remoteCells, layouts) ==
    /\ \E c1 \in localCells : \E c2 \in remoteCells :
         player = [p \in Players |->
                     IF p = storedPlayerId THEN newPlayer(c1[1], c1[2])
                     ELSE newPlayer(c2[1], c2[2])]
    /\ bombs = {}
    /\ blocks \in layouts
    /\ blockRemovals = {}
    /\ spawnTimers = <<>>
    /\ powerups = <<>>
    /\ greenSpaces = {}
    /\ cooldownTimers = [p \in Players |-> {}]
    /\ removeTimers = [p \in Players |-> {}]
    /\ isGamePaused = FALSE
    /\ isGameOver = FALSE
    /\ out = <<>>

(***************************************************************************)
(* Actions: one per top-level invocation.  The first entry of out names    *)
(* the invocation (ch = "in"); Tick leaves out empty.                      *)
(***************************************************************************)
enter(rec) == emit(World, rec)

\* a keydown event of the document; only the local player listens.  The
\* keys pressed are those that keep the player in columns <= maxX.
KeyDown(keys, maxX) ==
    \E key \in keys :
        /\ Apply(handleKeyDown(enter([ch |-> "in", t |-> "keydown", key |-> key]),
                               storedPlayerId, key))
        /\ player'[storedPlayerId].x <= maxX

\* the public placeBomb of a mirrored player
RemotePlaceBomb ==
    \E p \in Players \ {storedPlayerId} :
        Apply(placeBomb(enter([ch |-> "in", t |-> "placeBomb", id |-> p]), p))

\* the public setPosition of a mirrored player
RemoteSetPosition(cells) ==
    \E p \in Players \ {storedPlayerId} : \E c \in cells :
        Apply(setPosition(enter([ch |-> "in", t |-> "setPosition", id |-> p]),
                          p, c[1], c[2]))

\* the public createExplosion, called for a bomb at the player's own cell
CallCreateExplosion(radii) ==
    \E p \in Players : \E radius \in radii :
        Apply(createExplosion(
                 enter([ch |-> "in", t |-> "createExplosion", id |-> p,
                        x |-> player[p].x, y |-> player[p].y, radius |-> radius]),
                 p, player[p].x, player[p].y, radius))

\* a player:hit event published by another module
BusPlayerHit(targets, attackers) ==
    \E pid \in targets : \E att \in attackers :
        Apply(publishHit(enter([ch |-> "in", t |-> "emit player:hit"]),
                         [playerId |-> pid, attackerId |-> att]))

BusPowerUpApplied(targets, types, sources) ==
    \E pid \in targets : \E ty \in types : \E src \in sources :
        Apply(publishPowerUp(enter([ch |-> "in", t |-> "emit powerup:applied"]),
                             [playerId |-> pid, type |-> ty, source |-> src]))

BusStatUpdated(targets, types, values) ==
    \E pid \in targets : \E ty \in types : \E v \in values :
        Apply(publishStat(enter([ch |-> "in", t |-> "emit stat:updated"]),
                          [playerId |-> pid, type |-> ty, value |-> v]))

GamePause == Apply([enter([ch |-> "in", t |-> "game:pause"])
                      EXCEPT !.isGamePaused = TRUE])
GameResume == Apply([enter([ch |-> "in", t |-> "game:resume"])
                       EXCEPT !.isGamePaused = FALSE])
GameEnd == Apply([enter([ch |-> "in", t |-> "game:over"])
                    EXCEPT !.isGameOver = TRUE])
GameReset == Apply([enter([ch |-> "in", t |-> "game:reset"])
                      EXCEPT !.isGameOver = FALSE])

FuseExpire ==
    \E b \in bombs :
        /\ b.fuse = 0
        /\ Apply(fuseExpired(enter([ch |-> "in", t |-> "fuse", id |-> b.owner,
                                    x |-> b.gridX, y |-> b.gridY,
                                    range |-> b.range]), b))

CooldownExpire ==
    \E p \in Players :
        /\ 0 \in cooldownTimers[p]
        /\ Apply(cooldownExpired(enter([ch |-> "in", t |-> "cooldown", id |-> p]), p))

InvulnerabilityExpire ==
    \E p \in Players :
        /\ player[p].invulnerabilityTimer = 0
        /\ Apply(invulnerabilityExpired(
                    enter([ch |-> "in", t |-> "invulnerability", id |-> p]), p))

RemoveElementExpire ==
    \E p \in Players :
        /\ 0 \in removeTimers[p]
        /\ Apply(removeElementExpired(
                    enter([ch |-> "in", t |-> "removeElement", id |-> p]), p))

BlockRemoveExpire ==
    \E tm \in blockRemovals :
        /\ tm.rem = 0
        /\ Apply(blockRemoveExpired(enter([ch |-> "in", t |-> "blockRemove"]), tm))

SpawnTypes == {"bomb", "flame", "speed"}

SpawnExpire(results) ==
    \E i \in 1..Len(spawnTimers) : \E powerUp \in results :
        /\ spawnTimers[i].rem = 0
        /\ Apply(spawnExpired(enter([ch |-> "in", t |-> "spawn"]), i, powerUp))

Tick ==
    /\ Remaining(World) # {}
    /\ 0 \notin Remaining(World)
    /\ Apply(tick(World, Elapse(World)))

PlayerTimers ==
    \/ FuseExpire
    \/ CooldownExpire
    \/ InvulnerabilityExpire
    \/ RemoveElementExpire
    \/ Tick

(***************************************************************************)
(* SpecDamage: damage events from the bus and from the local player's own  *)
(* bombs, on a map without blocks                                          *)
(***************************************************************************)
InitDamage == InitWith({<<1, 1>>}, {<<2, 1>>}, {{}})

NextDamage ==
    \/ KeyDown({" ", "ArrowRight", "ArrowLeft"}, ArenaWidth)
    \/ BusPlayerHit({storedPlayerId, UnknownId}, Players \cup {NoId})
    \/ PlayerTimers

SpecDamage == InitDamage /\ [][NextDamage]_vars

(***************************************************************************)
(* SpecCells: both players arm bombs, the local one walks along row 1      *)
(***************************************************************************)
InitCells == InitWith({<<1, 1>>}, {<<2, 1>>}, {{}})

NextCells ==
    \/ KeyDown({" ", "ArrowRight", "ArrowLeft"}, ArenaWidth)
    \/ RemotePlaceBomb
    \/ PlayerTimers

SpecCells == InitCells /\ [][NextCells]_vars

(***************************************************************************)
(* SpecBombs: the local player's bombs while its stats change              *)
(***************************************************************************)
InitBombs == InitWith({<<1, 1>>}, {<<13, 15>>}, {{}})

NextBombs ==
    \/ KeyDown({" ", "ArrowRight", "ArrowLeft"}, ArenaWidth)
    \/ BusPowerUpApplied({storedPlayerId}, {"bomb", "flame"}, {"visual_verification"})
    \/ BusStatUpdated({storedPlayerId}, {"bombCapacity"}, {0, 1})
    \/ PlayerTimers

SpecBombs == InitBombs /\ [][NextBombs]_vars

(***************************************************************************)
(* SpecGrid: one key press or one createExplosion call, from every cell    *)
(* the local player can stand on, with and without destructible blocks     *)
(***************************************************************************)
\* the cells isValidPosition accepts on a map without elements
GridCells ==
    {c \in (0..GRID_WIDTH) \X (0..GRID_HEIGHT) :
        isValidPosition([greenSpaces |-> {}, blocks |-> {}, bombs |-> {}],
                        c[1], c[2])}

GridBlocks ==
    {elementAt(3, 1), elementAt(3, 2), elementAt(5, 1), elementAt(1, 3),
     elementAt(1, 5), elementAt(13, 14)}

InitGrid ==
    /\ InitWith(GridCells, {<<1, 1>>, <<13, 15>>}, {{}, GridBlocks})
    /\ \A p \in Players : elementAt(player[p].x, player[p].y) \notin blocks

GridKeyDown ==
    /\ out = <<>>
    /\ KeyDown({"ArrowUp", "ArrowRight", "ArrowDown", "ArrowLeft"}, GRID_WIDTH)

GridExplosion ==
    /\ out = <<>>
    /\ CallCreateExplosion(1..MaxRadius)

NextGrid ==
    \/ GridKeyDown
    \/ GridExplosion

SpecGrid == InitGrid /\ [][NextGrid]_vars

(***************************************************************************)
(* Reading the outputs of a step                                           *)
(***************************************************************************)
HitsOn(o, p) ==
    {i \in DOMAIN o : o[i].ch = "bus" /\ o[i].t = "player:hit" /\ o[i].playerId = p}
DamagedOf(o, p) ==
    {i \in DOMAIN o : o[i].t = "player:damaged" /\ o[i].id = p}
RelayHitsOf(o, p) ==
    {i \in DOMAIN o : o[i].t = "PLAYER_HIT" /\ o[i].playerId = p}
StartsOf(o, p) ==
    {i \in DOMAIN o : o[i].t = "player:invulnerabilityStart" /\ o[i].id = p}
EndsOf(o, p) ==
    {i \in DOMAIN o : o[i].t = "player:invulnerabilityEnd" /\ o[i].id = p}
EliminationsOf(o, p) ==
    {i \in DOMAIN o :
        \/ o[i].t = "player:eliminated" /\ o[i].id = p
        \/ o[i].t \in {"player_eliminated", "PLAYER_ELIMINATED"} /\ o[i].playerId = p}
Of(o, t) == {i \in DOMAIN o : o[i].t = t}
\* the createExplosion calls of a step
CallsIn(o) == {i \in DOMAIN o : o[i].ch = "call" /\ o[i].t = "createExplosion"}
\* the cells a step blasted in one direction
Blasted(o, dirName) ==
    {<<o[i].x, o[i].y>> : i \in {j \in DOMAIN o : o[j].t = "explosion"
                                                  /\ o[j].dir = dirName}}
\* player p asked for a bomb in this step
PlacementBy(o, p) ==
    /\ o # <<>>
    /\ \/ o[1].t = "keydown" /\ o[1].key = " " /\ p = storedPlayerId
       \/ o[1].t = "placeBomb" /\ o[1].id = p

Vulnerable(p) == ~player[p].invulnerable /\ player[p].lives > 0

\* the fixed walls: the parity pattern and the two borders
IsWall(x, y) == (x % 2 = 0 /\ y % 2 = 0) \/ x = 0 \/ y = 0

(***************************************************************************)
(* C1: a player's activeBombs is never greater than its bombCapacity,      *)
(* after any sequence of placements, fuse expiries, power-ups and stat     *)
(* updates.                                                                *)
(***************************************************************************)
C1_ActiveWithinCapacity ==
    \A p \in Players : player[p].activeBombs <= player[p].bombCapacity

(***************************************************************************)
(* C2: no grid cell ever holds two armed bombs, and a placeBomb by any     *)
(* player on a cell that already holds a bomb, its own or another          *)
(* player's, places nothing: no new bomb, no DROP_BOMB, no bomb:placed,    *)
(* activeBombs unchanged.                                                  *)
(***************************************************************************)
C2_OneBombPerCell ==
    [][/\ \A b1, b2 \in bombs' :
            (b1.gridX = b2.gridX /\ b1.gridY = b2.gridY) => b1 = b2
       /\ \A p \in Players :
            (/\ PlacementBy(out', p)
             /\ \E b \in bombs : b.gridX = player[p].x /\ b.gridY = player[p].y)
            => /\ bombs' = bombs
               /\ player'[p].activeBombs = player[p].activeBombs
               /\ Of(out', "DROP_BOMB") = {}
               /\ Of(out', "bomb:placed") = {}]_vars

\* the local player, free to place, pressed space on a cell that holds the
\* other player's bomb, and nothing was placed
C2_Witness ==
    /\ PlacementBy(out, storedPlayerId)
    /\ Len(out) = 1
    /\ player[storedPlayerId].playerElement.attached
    /\ ~player[storedPlayerId].bombCooldown
    /\ player[storedPlayerId].activeBombs < player[storedPlayerId].bombCapacity
    /\ \E b \in bombs : /\ b.owner # storedPlayerId
                        /\ b.gridX = player[storedPlayerId].x
                        /\ b.gridY = player[storedPlayerId].y

(***************************************************************************)
(* C3: a bomb detonates with the explosionRange its owner had when it was  *)
(* placed (the value announced in DROP_BOMB and bomb:placed), whatever the *)
(* owner's explosionRange has become when the fuse expires.                *)
(***************************************************************************)
C3_RadiusIsPlacementRange ==
    (out # <<>> /\ out[1].t = "fuse")
    => \A i \in CallsIn(out) : out[i].radius = out[1].range

(***************************************************************************)
(* C4: for a detonation at cell C with radius R, in each direction the     *)
(* blasted cells are exactly the first n cells next to C, n <= R, where    *)
(* the ray ends before the first wall or out-of-blast-bounds cell and at   *)
(* the first cell holding a block; that block is destroyed.                *)
(***************************************************************************)
OutOfBlastBounds(x, y) == x < 0 \/ y < 0 \/ x > GRID_WIDTH \/ y > GRID_HEIGHT
HasBlock(x, y) == \E b \in blocks : CellOfPx(b.left) = x /\ CellOfPx(b.top) = y
RayCell(c, d, j) == <<c.x + d.dx * j, c.y + d.dy * j>>
RayOpen(c, d, k) ==
    /\ \A j \in 1..k : LET cell == RayCell(c, d, j)
                       IN ~IsWall(cell[1], cell[2])
                          /\ ~OutOfBlastBounds(cell[1], cell[2])
    /\ \A j \in 1..(k - 1) : LET cell == RayCell(c, d, j)
                             IN ~HasBlock(cell[1], cell[2])
Reach(c, d, R) ==
    CHOOSE k \in 0..R : RayOpen(c, d, k) /\ \A m \in (k + 1)..R : ~RayOpen(c, d, m)

C4_BlastIsPrefix ==
    [][\A i \in CallsIn(out') : \A k \in DOMAIN Dirs :
          LET c == out'[i]
              d == Dirs[k]
              n == Reach(c, d, c.radius)
              last == RayCell(c, d, n)
          IN /\ Blasted(out', d.name) = {RayCell(c, d, j) : j \in 1..n}
             /\ (n >= 1 /\ HasBlock(last[1], last[2]))
                => \E e \in Of(out', "block:destroyed") :
                      out'[e].x = last[1] /\ out'[e].y = last[2]]_vars

\* a ray to the right of radius >= 2 that ended on a block next to the
\* origin, with an open cell behind the block left alone
C4_Witness ==
    \E i \in CallsIn(out) :
        /\ out[i].radius >= 2
        /\ HasBlock(out[i].x + 1, out[i].y)
        /\ ~IsWall(out[i].x + 2, out[i].y)
        /\ ~OutOfBlastBounds(out[i].x + 2, out[i].y)
        /\ Blasted(out, "right") = {<<out[i].x + 1, out[i].y>>}
        /\ \E e \in Of(out, "block:destroyed") :
              out[e].x = out[i].x + 1 /\ out[e].y = out[i].y

(***************************************************************************)
(* C5: for a cell with x and y both even, or x = 0, or y = 0: a key press  *)
(* that would move the local player into it leaves the player where it is, *)
(* and an explosion ray that reaches it blasts neither it nor any cell     *)
(* behind it.                                                              *)
(***************************************************************************)
C5_WallsStopMovesAndRays ==
    [][/\ (/\ out' # <<>>
           /\ out'[1].t = "keydown"
           /\ out'[1].key # " "
           /\ IsWall(player[storedPlayerId].x + keyStep(out'[1].key).dx,
                     player[storedPlayerId].y + keyStep(out'[1].key).dy))
          => /\ player'[storedPlayerId].x = player[storedPlayerId].x
             /\ player'[storedPlayerId].y = player[storedPlayerId].y
             /\ player'[storedPlayerId].playerElement
                   = player[storedPlayerId].playerElement
             /\ Of(out', "player:moved") = {}
       /\ \A i \in CallsIn(out') : \A k \in DOMAIN Dirs : \A j \in 1..out'[i].radius :
            LET wall == RayCell(out'[i], Dirs[k], j)
            IN IsWall(wall[1], wall[2])
               => \A m \in j..out'[i].radius :
                     RayCell(out'[i], Dirs[k], m) \notin Blasted(out', Dirs[k].name)]_vars

\* the down key was pressed under a parity wall and the player did not move
C5_WitnessMove ==
    /\ out # <<>>
    /\ out[1].t = "keydown"
    /\ out[1].key = "ArrowDown"
    /\ player[storedPlayerId].x % 2 = 0
    /\ IsWall(player[storedPlayerId].x, player[storedPlayerId].y + 1)
    /\ Of(out, "player:moved") = {}
    /\ Of(out, "MOVE") # {}

(***************************************************************************)
(* C6: once a player's lives are 0 (or less), a player:hit for that player *)
(* leaves lives unchanged and produces no player:damaged (which handleHit  *)
(* follows with PLAYER_HIT) and no elimination announcement.               *)
(***************************************************************************)
C6_EliminatedIsTerminal ==
    [][\A p \in Players :
          (player[p].lives <= 0 /\ HitsOn(out', p) # {})
          => /\ player'[p].lives = player[p].lives
             /\ DamagedOf(out', p) = {}
             /\ EliminationsOf(out', p) = {}]_vars

(***************************************************************************)
(* C7: a player:hit for a Vulnerable player takes exactly one life, starts *)
(* the invulnerability window with 2000 ms to run and announces it; the    *)
(* window's remaining time only falls with the passage of time, the player *)
(* stays invulnerable until it is 0, time does not pass beyond that        *)
(* instant before the player is Vulnerable again, and the revert is        *)
(* announced with player:invulnerabilityEnd.                               *)
(***************************************************************************)
C7_DamageOpensWindow ==
    [][\A p \in Players :
          LET timer == player[p].invulnerabilityTimer
              timer2 == player'[p].invulnerabilityTimer
          IN /\ (Vulnerable(p) /\ HitsOn(out', p) # {})
                => /\ player'[p].lives = player[p].lives - 1
                   /\ Cardinality(DamagedOf(out', p)) = 1
                   /\ Cardinality(StartsOf(out', p)) = 1
                   /\ player'[p].invulnerable
                   /\ timer2 = invulnerabilityDuration
             /\ player'[p].lives >= player[p].lives - 1
             /\ player'[p].invulnerable <=> timer2 # NoTimer
             /\ (player[p].invulnerable /\ timer > 0)
                => /\ player'[p].invulnerable
                   /\ \/ timer2 = timer
                      \/ out' = <<>> /\ timer2 >= 0 /\ timer2 < timer
             /\ (player[p].invulnerable /\ timer = 0)
                => /\ out' # <<>>
                   /\ \/ player'[p].invulnerable /\ timer2 = 0
                      \/ ~player'[p].invulnerable /\ EndsOf(out', p) # {}]_vars

\* the local player lost its first life and its window has just ended
C7_Witness ==
    /\ EndsOf(out, storedPlayerId) # {}
    /\ player[storedPlayerId].lives = initialLives - 1
    /\ Vulnerable(storedPlayerId)

(***************************************************************************)
(* C8: a player:hit for a player that is invulnerable leaves its lives and *)
(* the remaining time of its invulnerability window unchanged.             *)
(***************************************************************************)
C8_HitsWhileInvulnerable ==
    [][\A p \in Players :
          (player[p].invulnerable /\ HitsOn(out', p) # {})
          => /\ player'[p].lives = player[p].lives
             /\ player'[p].invulnerable
             /\ player'[p].invulnerabilityTimer = player[p].invulnerabilityTimer]_vars

\* the local player was hit in the middle of its window
C8_Witness ==
    /\ HitsOn(out, storedPlayerId) # {}
    /\ player[storedPlayerId].invulnerable
    /\ player[storedPlayerId].invulnerabilityTimer > 0
    /\ player[storedPlayerId].invulnerabilityTimer < invulnerabilityDuration
    /\ player[storedPlayerId].lives > 0

(***************************************************************************)
(* C9: a step that starts with the player inside its invulnerability       *)
(* window announces no damage for it: no PLAYER_HIT relay message, no      *)
(* player:damaged and no player:invulnerabilityStart, also when the player *)
(* stands in a ray cell of its own explosion.                              *)
(***************************************************************************)
C9_NoAnnouncementWhileInvulnerable ==
    [][\A p \in Players :
          (player[p].invulnerable /\ player[p].invulnerabilityTimer > 0)
          => /\ RelayHitsOf(out', p) = {}
             /\ DamagedOf(out', p) = {}
             /\ StartsOf(out', p) = {}]_vars

(***************************************************************************)
(* C10: one createExplosion call emits at most one block:destroyed event   *)
(* and schedules at most one spawn roll per cell.                          *)
(***************************************************************************)
C10_OneDestructionPerCell ==
    \A i, j \in DOMAIN out :
        (/\ out[i].t \in {"block:destroyed", "spawn:scheduled"}
         /\ out[j].t = out[i].t
         /\ out[j].x = out[i].x
         /\ out[j].y = out[i].y)
        => i = j

\* one call destroyed the blocks of two cells
C10_Witness ==
    /\ Cardinality(CallsIn(out)) = 1
    /\ Cardinality(Of(out, "block:destroyed")) = 2
    /\ Cardinality(Of(out, "spawn:scheduled")) = 2

(***************************************************************************)
(* SpecBlocks: the two players arm bombs on either side of one block; the  *)
(* block's removal and spawn roll follow each destruction                  *)
(***************************************************************************)
InitBlocks == InitWith({<<2, 1>>}, {<<4, 1>>}, {{elementAt(3, 1)}})

NextBlocks ==
    \/ KeyDown({" "}, ArenaWidth)
    \/ RemotePlaceBomb
    \/ PlayerTimers
    \/ BlockRemoveExpire
    \/ SpawnExpire({NoId, "bomb"})

SpecBlocks == InitBlocks /\ [][NextBlocks]_vars

(***************************************************************************)
(* C11: over the whole run each block gives rise to at most one            *)
(* block:destroyed event and one spawn roll: a block that an explosion has *)
(* already destroyed (its removal is pending) is not destroyed again by a  *)
(* later detonation.                                                       *)
(***************************************************************************)
C11_BlockDestroyedOncePerRun ==
    [][\A e \in Of(out', "block:destroyed") \cup Of(out', "spawn:scheduled") :
          ~\E tm \in blockRemovals : /\ CellOfPx(tm.left) = out'[e].x
                                     /\ CellOfPx(tm.top) = out'[e].y]_vars

(***************************************************************************)
(* C12: a bomb is armed only by a placeBomb of a player whose cooldown has *)
(* elapsed, whose activeBombs is below bombCapacity and whose cell holds   *)
(* no bomb; a placeBomb that fails one of these changes nothing:           *)
(* activeBombs, the cooldown flag and its timer and the armed bombs are    *)
(* unchanged and nothing is sent or emitted.                               *)
(***************************************************************************)
MayPlace(p) ==
    /\ ~player[p].bombCooldown
    /\ player[p].activeBombs < player[p].bombCapacity
    /\ ~\E b \in bombs : b.gridX = player[p].x /\ b.gridY = player[p].y

C12_PlacementGuards ==
    [][/\ \A p \in Players :
            (PlacementBy(out', p) /\ ~MayPlace(p))
            => /\ bombs' = bombs
               /\ player'[p] = player[p]
               /\ cooldownTimers' = cooldownTimers
               /\ Len(out') = 1
       /\ \A b \in bombs' :
            (~\E old \in bombs : /\ old.owner = b.owner
                                 /\ old.gridX = b.gridX
                                 /\ old.gridY = b.gridY)
            => /\ b.fuse = fuseDuration
               /\ PlacementBy(out', b.owner)
               /\ MayPlace(b.owner)]_vars

\* the local player, under capacity and on a free cell, pressed space during
\* its cooldown and nothing happened
C12_Witness ==
    /\ PlacementBy(out, storedPlayerId)
    /\ Len(out) = 1
    /\ player[storedPlayerId].playerElement.attached
    /\ player[storedPlayerId].bombCooldown
    /\ player[storedPlayerId].activeBombs < player[storedPlayerId].bombCapacity
    /\ ~\E b \in bombs : /\ b.gridX = player[storedPlayerId].x
                         /\ b.gridY = player[storedPlayerId].y

(***************************************************************************)
(* C13: a key press of the local player towards a cell it may not enter    *)
(* (out of the movement bounds, a wall, or holding a block or a bomb)      *)
(* changes nothing and announces nothing: position and direction are       *)
(* unchanged, no player:moved is emitted and no MOVE is sent.              *)
(***************************************************************************)
OutOfMoveBounds(x, y) == x < 0 \/ y < 0 \/ x >= GRID_WIDTH \/ y >= GRID_HEIGHT
HasBomb(x, y) == \E b \in bombs : b.gridX = x /\ b.gridY = y
Illegal(x, y) ==
    OutOfMoveBounds(x, y) \/ IsWall(x, y) \/ HasBlock(x, y) \/ HasBomb(x, y)

C13_IllegalMoveIsSilent ==
    [][(/\ out' # <<>>
        /\ out'[1].t = "keydown"
        /\ out'[1].key # " "
        /\ Illegal(player[storedPlayerId].x + keyStep(out'[1].key).dx,
                   player[storedPlayerId].y + keyStep(out'[1].key).dy))
       => /\ player'[storedPlayerId].x = player[storedPlayerId].x
          /\ player'[storedPlayerId].y = player[storedPlayerId].y
          /\ player'[storedPlayerId].direction = player[storedPlayerId].direction
          /\ Of(out', "player:moved") = {}
          /\ Of(out', "MOVE") = {}]_vars

(***************************************************************************)
(* C14: successful placements of one player are at least 1000 ms apart.    *)
(* A placement starts the player's cooldown with 1000 ms to run; while it  *)
(* runs the flag is set and the player arms no bomb; only the passage of   *)
(* time lowers the remaining delay, time does not pass the end of the      *)
(* cooldown before the flag is cleared, and then the flag no longer        *)
(* forbids a placement.                                                    *)
(***************************************************************************)
ArmedBy(p) == {b \in bombs' : b.owner = p /\ b.fuse = fuseDuration
                              /\ ~\E old \in bombs : /\ old.owner = p
                                                     /\ old.gridX = b.gridX
                                                     /\ old.gridY = b.gridY}

C14_CooldownBetweenPlacements ==
    [][\A p \in Players :
          /\ ArmedBy(p) # {}
             => /\ cooldownTimers[p] = {}
                /\ ~player[p].bombCooldown
                /\ cooldownTimers'[p] = {bombCooldownTime}
          /\ player'[p].bombCooldown <=> cooldownTimers'[p] # {}
          /\ \A r \in cooldownTimers[p] :
                /\ r >= 0
                /\ r > 0 => \/ cooldownTimers'[p] = cooldownTimers[p]
                            \/ /\ out' = <<>>
                               /\ \E d \in 1..r : cooldownTimers'[p] = {r - d}
                /\ r = 0 => /\ out' # <<>>
                            /\ cooldownTimers'[p] \in {{}, {0}}]_vars

\* the local player has armed its second bomb 1000 ms after the first
C14_Witness ==
    /\ PlacementBy(out, storedPlayerId)
    /\ Of(out, "DROP_BOMB") # {}
    /\ \E b1, b2 \in bombs : /\ b1.owner = storedPlayerId
                             /\ b2.owner = storedPlayerId
                             /\ b2.fuse = fuseDuration
                             /\ b1.fuse = fuseDuration - bombCooldownTime

(***************************************************************************)
(* SpecPause: both players arm bombs while the game is paused, resumed,    *)
(* ended and reset                                                         *)
(***************************************************************************)
InitPause == InitWith({<<1, 1>>}, {<<2, 1>>}, {{}})

NextPause ==
    \/ KeyDown({" ", "ArrowRight"}, ArenaWidth)
    \/ RemotePlaceBomb
    \/ GamePause
    \/ GameResume
    \/ GameEnd
    \/ GameReset
    \/ PlayerTimers

SpecPause == InitPause /\ [][NextPause]_vars

(***************************************************************************)
(* C15: every armed bomb detonates exactly once, 2000 ms after it was      *)
(* placed.  An armed bomb stays armed, with a fuse that only the passage   *)
(* of time lowers, until the fuse is 0; time does not pass that instant    *)
(* before the bomb has detonated; the detonation removes the bomb and      *)
(* calls createExplosion once at its cell; and createExplosion is called   *)
(* for no other reason.  Neither the two flags, nor the owner's            *)
(* elimination, nor another blast enter into it.                           *)
(***************************************************************************)
Detonates(b) ==
    /\ out'[1].t = "fuse"
    /\ out'[1].id = b.owner /\ out'[1].x = b.gridX /\ out'[1].y = b.gridY
    /\ b \notin bombs'
    /\ Cardinality(CallsIn(out')) = 1
    /\ \A i \in CallsIn(out') :
          out'[i].by = b.owner /\ out'[i].x = b.gridX /\ out'[i].y = b.gridY
    /\ player'[b.owner].activeBombs = player[b.owner].activeBombs - 1

C15_FuseRunsToDetonation ==
    [][/\ \A b \in bombs :
            /\ b.fuse >= 0 /\ b.fuse <= fuseDuration
            /\ b.fuse > 0
               => \/ b \in bombs'
                  \/ /\ out' = <<>>
                     /\ \E d \in 1..b.fuse : [b EXCEPT !.fuse = @ - d] \in bombs'
            /\ b.fuse = 0
               => /\ out' # <<>>
                  /\ b \in bombs' \/ Detonates(b)
       /\ (out' # <<>> /\ (out'[1].t = "fuse" \/ CallsIn(out') # {}))
          => \E b \in bombs : b.fuse = 0 /\ Detonates(b)]_vars

\* a bomb has just detonated while the game was paused and its owner
\* eliminated
C15_Witness ==
    /\ out # <<>>
    /\ out[1].t = "fuse"
    /\ CallsIn(out) # {}
    /\ isGamePaused
    /\ player[out[1].id].lives <= 0
    /\ ~player[out[1].id].playerElement.attached

(***************************************************************************)
(* C16: while the paused flag or the game-over flag is set, a movement or  *)
(* placement request is not accepted: the players, their positions,        *)
(* directions and activeBombs, and the armed bombs are unchanged and       *)
(* nothing is announced.                                                   *)
(***************************************************************************)
C16_FlagsGateRequests ==
    [][(/\ isGamePaused \/ isGameOver
        /\ out' # <<>>
        /\ out'[1].t \in {"keydown", "placeBomb"})
       => /\ player' = player
          /\ bombs' = bombs
          /\ Len(out') = 1]_vars


(***************************************************************************)
(* SpecStats: the events that reach the local player's stats, verified or  *)
(* not, with damage from the bus                                           *)
(***************************************************************************)
InitStats == InitWith({<<1, 1>>}, {<<2, 1>>}, {{}})

NextStats ==
    \/ BusPowerUpApplied({storedPlayerId}, {"bomb", "flame", "speed", "extraLife"},
                         {"visual_verification", "server"})
    \/ BusStatUpdated({storedPlayerId},
                      {"bombCapacity", "explosionRange", "speed", "extraLife"},
                      {0, 1, initialSpeed})
    \/ BusPlayerHit({storedPlayerId}, {NoId, "p2"})
    \/ InvulnerabilityExpire
    \/ RemoveElementExpire
    \/ Tick

SpecStats == InitStats /\ [][NextStats]_vars

\* the stats of player p after the step differ from those before it; for
\* lives, only a gain counts
StatsChanged(p) ==
    \/ player'[p].bombCapacity # player[p].bombCapacity
    \/ player'[p].explosionRange # player[p].explosionRange
    \/ player'[p].speed # player[p].speed
    \/ player'[p].lives > player[p].lives

\* the step delivered a power-up application for p that carries the
\* verification source
VerifiedPowerUpFor(o, p) ==
    \E i \in Of(o, "powerup:applied") :
        o[i].playerId = p /\ o[i].source = "visual_verification"

\* C17: a player's bombCapacity, explosionRange, speed and extra lives change
\* only in a step that delivers a power-up application for that player with
\* the verification source; no other event changes them.
C17_StatsOnlyByVerifiedPowerUp ==
    [][\A p \in Players : StatsChanged(p) => VerifiedPowerUpFor(out', p)]_vars


\* the player:hit publications for p that precede output i of a step
HitsBefore(o, p, i) == {h \in HitsOn(o, p) : h < i}

\* the attacker of the player:hit publication that output i answers
SuppliedAttacker(o, p, i) ==
    LET h == CHOOSE k \in HitsBefore(o, p, i) :
                 \A j \in HitsBefore(o, p, i) : j <= k
    IN o[h].attackerId

\* the damage reports of a step that leave p with no lives
FatalDamageOf(o, p) == {i \in DamagedOf(o, p) : o[i].livesRemaining <= 0}

\* C18: every damage event that brings a player's lives to 0 or below is
\* followed, in the same step, by a local player:eliminated event and an
\* outward player_eliminated announcement; both name the attacker the damage
\* event supplied, or the victim itself when it supplied none, and no
\* elimination announcement is without an attacker.
C18_EliminationNamesAttacker ==
    [][\A p \in Players :
         /\ \A i \in FatalDamageOf(out', p) :
              /\ HitsBefore(out', p, i) # {}
              /\ i + 4 <= Len(out')
              /\ LET att == SuppliedAttacker(out', p, i)
                     expected == IF att = NoId THEN p ELSE att
                 IN /\ out'[i + 3].ch = "bus"
                    /\ out'[i + 3].t = "player:eliminated"
                    /\ out'[i + 3].id = p
                    /\ out'[i + 3].eliminatedBy = expected
                    /\ out'[i + 4].ch = "relay"
                    /\ out'[i + 4].t = "player_eliminated"
                    /\ out'[i + 4].playerId = p
                    /\ out'[i + 4].attackerId = expected
         /\ \A e \in Of(out', "player_eliminated") \cup Of(out', "PLAYER_ELIMINATED") :
              out'[e].attackerId # NoId]_vars

\* the local player lost its last life to a hit that named no attacker and
\* was announced as eliminated by itself
C18_Witness ==
    \E i \in FatalDamageOf(out, storedPlayerId) :
        /\ HitsBefore(out, storedPlayerId, i) # {}
        /\ SuppliedAttacker(out, storedPlayerId, i) = NoId
        /\ \E e \in Of(out, "player_eliminated") :
              e > i /\ out[e].attackerId = storedPlayerId


\* every cell a step rendered an explosion on, the origin included
BlastedCells(o) == {<<o[j].x, o[j].y>> : j \in Of(o, "explosion")}

\* the step is the detonation of a bomb of player p
DetonationOf(o, p) == o # <<>> /\ o[1].t = "fuse" /\ o[1].id = p

\* output h of a step is a player:hit on p by p itself, answered by p's
\* damage report and a PLAYER_HIT announcement naming p as its own attacker
SelfHitAt(o, p, h) ==
    /\ h \in HitsOn(o, p)
    /\ o[h].attackerId = p
    /\ h + 2 <= Len(o)
    /\ o[h + 1].t = "player:damaged" /\ o[h + 1].id = p
    /\ o[h + 2].ch = "relay" /\ o[h + 2].t = "PLAYER_HIT"
    /\ o[h + 2].playerId = p /\ o[h + 2].attackerId = o[h + 2].playerId

\* C19: when a bomb of the local player detonates while that player is
\* vulnerable and stands on the origin cell or on a blasted ray cell, the
\* step publishes player:hit for the player with attackerId its own id, and
\* the PLAYER_HIT announcements that follow carry attackerId = playerId.
C19_OwnBlastIsSelfHit ==
    [][(/\ DetonationOf(out', storedPlayerId)
        /\ Vulnerable(storedPlayerId)
        /\ <<player[storedPlayerId].x, player[storedPlayerId].y>>
               \in BlastedCells(out'))
       => /\ \E h \in DOMAIN out' : SelfHitAt(out', storedPlayerId, h)
          /\ \A r \in RelayHitsOf(out', storedPlayerId) :
                out'[r].attackerId = out'[r].playerId]_vars

\* the local player was damaged on the origin cell of its own bomb
C19_Witness ==
    /\ DetonationOf(out, storedPlayerId)
    /\ out[1].x = player[storedPlayerId].x /\ out[1].y = player[storedPlayerId].y
    /\ \E h \in DOMAIN out : SelfHitAt(out, storedPlayerId, h)


\* C20: a player's lives never increase before elimination: in every step
\* taken while the player still has lives, the lives after the step are at
\* most the lives before it.
C20_LivesNeverIncrease ==
    [][\A p \in Players :
          player[p].lives > 0 => player'[p].lives <= player[p].lives]_vars


(***************************************************************************)
(* SpecGreen: the local player walks and arms bombs on row 1 of a document *)
(* whose cell (2,1) carries a .green-space element                         *)
(***************************************************************************)
InitGreen ==
    /\ player = [p \in Players |->
                   IF p = storedPlayerId THEN newPlayer(1, 1) ELSE newPlayer(3, 1)]
    /\ bombs = {}
    /\ blocks = {}
    /\ blockRemovals = {}
    /\ spawnTimers = <<>>
    /\ powerups = <<>>
    /\ greenSpaces = {elementAt(2, 1)}
    /\ cooldownTimers = [p \in Players |-> {}]
    /\ removeTimers = [p \in Players |-> {}]
    /\ isGamePaused = FALSE
    /\ isGameOver = FALSE
    /\ out = <<>>

NextGreen ==
    \/ KeyDown({" ", "ArrowRight", "ArrowLeft"}, ArenaWidth)
    \/ PlayerTimers

SpecGreen == InitGreen /\ [][NextGreen]_vars

\* the step is an arrow key press of the local player, handled while its
\* element is in the document and the game runs
ArrowStep ==
    /\ out' # <<>>
    /\ out'[1].t = "keydown"
    /\ out'[1].key # " "
    /\ player[storedPlayerId].playerElement.attached
    /\ ~isGamePaused /\ ~isGameOver

\* the cell an arrow key press asks for
TargetX == player[storedPlayerId].x + keyStep(out'[1].key).dx
TargetY == player[storedPlayerId].y + keyStep(out'[1].key).dy

StaysPut ==
    /\ player'[storedPlayerId].x = player[storedPlayerId].x
    /\ player'[storedPlayerId].y = player[storedPlayerId].y
    /\ Of(out', "player:moved") = {}

\* C21: a move into a cell that holds a destructible block or an armed bomb
\* is rejected whatever else the cell holds, a green-space marker included;
\* a move into an otherwise free cell is made even when another player
\* stands on it.
C21_BlocksAndBombsStopMoves ==
    [][ArrowStep
       => /\ (HasBlock(TargetX, TargetY) \/ HasBomb(TargetX, TargetY)) => StaysPut
          /\ (/\ ~Illegal(TargetX, TargetY)
              /\ \E p \in Players \ {storedPlayerId} :
                    player[p].x = TargetX /\ player[p].y = TargetY)
             => /\ player'[storedPlayerId].x = TargetX
                /\ player'[storedPlayerId].y = TargetY]_vars


(***************************************************************************)
(* SpecCollect: the local player walks and arms bombs on row 1 while cell  *)
(* (2,1) holds no, one or two .powerup elements (two spawn rolls for one   *)
(* cell are reached in SpecBlocks)                                         *)
(***************************************************************************)
powerUpAt(x, y, type) == [left |-> PxOf(x), top |-> PxOf(y), type |-> type]

InitCollect ==
    /\ player = [p \in Players |->
                   IF p = storedPlayerId THEN newPlayer(1, 1) ELSE newPlayer(3, 1)]
    /\ bombs = {}
    /\ blocks = {}
    /\ blockRemovals = {}
    /\ spawnTimers = <<>>
    /\ powerups \in {<<>>, <<powerUpAt(2, 1, "flame")>>,
                     <<powerUpAt(2, 1, "bomb"), powerUpAt(2, 1, "flame")>>}
    /\ greenSpaces = {}
    /\ cooldownTimers = [p \in Players |-> {}]
    /\ removeTimers = [p \in Players |-> {}]
    /\ isGamePaused = FALSE
    /\ isGameOver = FALSE
    /\ out = <<>>

NextCollect ==
    \/ KeyDown({" ", "ArrowRight", "ArrowLeft"}, ArenaWidth)
    \/ PlayerTimers

SpecCollect == InitCollect /\ [][NextCollect]_vars

\* the .powerup elements on a cell
PowerUpsAt(ps, x, y) ==
    {j \in 1..Len(ps) : CellOfPx(ps[j].left) = x /\ CellOfPx(ps[j].top) = y}

\* C22: a verified collection leaves no power-up entity on its cell, so that
\* of two power-ups spawned on one cell only the first collection applies an
\* effect; a collection check on a cell without a power-up changes no stat
\* and announces nothing.
C22_CollectionEmptiesCell ==
    [][/\ \A i \in Of(out', "COLLECT_POWERUP") :
             PowerUpsAt(powerups', out'[i].x, out'[i].y) = {}
       /\ (/\ ArrowStep
           /\ PowerUpsAt(powerups, player'[storedPlayerId].x,
                         player'[storedPlayerId].y) = {})
          => /\ Of(out', "COLLECT_POWERUP") = {}
             /\ Of(out', "powerup:applied") = {}
             /\ ~StatsChanged(storedPlayerId)]_vars


\* the reference ray walk over the wall predicate: the cells of one ray from
\* step j on, up to radius R, on a map without blocks
RECURSIVE RefWalk(_, _, _, _)
RefWalk(c, d, j, R) ==
    LET cell == RayCell(c, d, j)
    IN IF j > R \/ OutOfBlastBounds(cell[1], cell[2]) \/ IsWall(cell[1], cell[2])
       THEN {}
       ELSE {cell} \cup RefWalk(c, d, j + 1, R)

RefBlast(c) ==
    {<<c.x, c.y>>} \cup UNION {RefWalk(c, Dirs[k], 1, c.radius) : k \in DOMAIN Dirs}

\* C23: on a map without destructible blocks, the cells createExplosion
\* blasts are the origin and the cells of the reference ray walk, for every
\* origin and radius; for the origin (3,3) and radius 2 they are the origin
\* and (3,2),(3,1),(3,4),(3,5),(2,3),(1,3),(4,3),(5,3).
C23_BlastIsReferenceWalk ==
    [][blocks = {}
       => \A i \in CallsIn(out') :
             /\ BlastedCells(out') = RefBlast(out'[i])
             /\ (out'[i].x = 3 /\ out'[i].y = 3 /\ out'[i].radius = 2)
                => BlastedCells(out')
                     = {<<3, 3>>, <<3, 2>>, <<3, 1>>, <<3, 4>>, <<3, 5>>,
                        <<2, 3>>, <<1, 3>>, <<4, 3>>, <<5, 3>>}]_vars

\* the explosion of radius 2 at (3,3) on the map without blocks
C23_Witness ==
    /\ blocks = {}
    /\ \E i \in CallsIn(out) :
          /\ out[i].x = 3 /\ out[i].y = 3 /\ out[i].radius = 2
          /\ Cardinality(BlastedCells(out)) = 9


\* player p has its element in the document and stands on a cell of cs
StandsIn(p, cs) ==
    /\ player[p].playerElement.attached
    /\ <<player[p].x, player[p].y>> \in cs

\* C24: a detonation publishes player:hit, with the detonating player as
\* attacker, for every player standing on a blasted cell, the detonating
\* player included; a player:hit of the detonation names no player that
\* stands outside the blasted cells and no other attacker.
C24_HitsExactlyTheBlasted ==
    [][\A i \in CallsIn(out') :
          /\ \A p \in Players :
                StandsIn(p, BlastedCells(out'))
                => \E h \in HitsOn(out', p) : out'[h].attackerId = out'[i].by
          /\ \A h \in DOMAIN out' :
                (out'[h].ch = "bus" /\ out'[h].t = "player:hit")
                => /\ out'[h].attackerId = out'[i].by
                   /\ out'[h].playerId \in Players
                   /\ <<player[out'[h].playerId].x, player[out'[h].playerId].y>>
                         \in BlastedCells(out')]_vars

\* a bomb of the mirrored player hit both players, itself included
C24_Witness ==
    /\ DetonationOf(out, "p2")
    /\ \E h \in HitsOn(out, "p2") : out[h].attackerId = "p2"
    /\ \E h \in HitsOn(out, storedPlayerId) : out[h].attackerId = "p2"


\* C25: the spawn policy is consulted for a destroyed block's cell only once
\* the block has been removed from that cell, and no power-up is ever on a
\* cell that still holds its block.
C25_SpawnAfterBlockRemoval ==
    [][/\ \A i \in Of(out', "maybeSpawnPowerup") :
             ~HasBlock(out'[i].x, out'[i].y)
       /\ \A j \in 1..Len(powerups') :
             ~\E b \in blocks' : /\ CellOfPx(b.left) = CellOfPx(powerups'[j].left)
                                 /\ CellOfPx(b.top) = CellOfPx(powerups'[j].top)]_vars


(***************************************************************************)
(* SpecInbound: power-up, stat and hit events from the bus, addressed to   *)
(* either player or to an id no player has, of known and unknown types     *)
(***************************************************************************)
InitInbound == InitWith({<<1, 1>>}, {<<2, 1>>}, {{}})

NextInbound ==
    \/ BusPowerUpApplied({storedPlayerId, UnknownId}, {"bomb", "shield"},
                         {"visual_verification"})
    \/ BusStatUpdated({"p2", UnknownId}, {"bombCapacity", "shield"}, {0})
    \/ BusPlayerHit(Players \cup {UnknownId}, {NoId})
    \/ InvulnerabilityExpire
    \/ RemoveElementExpire
    \/ Tick

SpecInbound == InitInbound /\ [][NextInbound]_vars

\* the step delivers a power-up, stat or hit event from the bus; its second
\* output is the event as published
InboundStep ==
    /\ out' # <<>>
    /\ out'[1].t \in {"emit powerup:applied", "emit stat:updated", "emit player:hit"}

\* the types the two stat handlers have a case for
KnownTypes(topic) ==
    IF topic = "powerup:applied" THEN {"bomb", "flame", "speed", "extraLife"}
    ELSE {"bombCapacity", "bomb", "explosionRange", "flame", "speed", "extraLife"}

RelaysIn(o) == {i \in DOMAIN o : o[i].ch = "relay"}

\* C26: an inbound power-up, stat or hit event leaves every player it is not
\* addressed to as it was and sends no relay announcement about that player;
\* a power-up or stat event of an unknown type changes no player and sends
\* no relay announcement.
C26_ForeignEventsIgnored ==
    [][InboundStep
       => LET ev == out'[2]
          IN /\ \A p \in Players :
                   p # ev.playerId
                   => /\ player'[p] = player[p]
                      /\ cooldownTimers'[p] = cooldownTimers[p]
                      /\ removeTimers'[p] = removeTimers[p]
                      /\ \A i \in RelaysIn(out') : out'[i].playerId # p
             /\ (/\ ev.t \in {"powerup:applied", "stat:updated"}
                 /\ ev.type \notin KnownTypes(ev.t))
                => /\ player' = player
                   /\ RelaysIn(out') = {}]_vars

\* a hit addressed to the mirrored player damaged it and not the local one
C26_Witness ==
    /\ out # <<>>
    /\ out[1].t = "emit player:hit"
    /\ out[2].playerId = "p2"
    /\ DamagedOf(out, "p2") # {}
    /\ DamagedOf(out, storedPlayerId) = {}
    /\ Vulnerable(storedPlayerId)


(***************************************************************************)
(* SpecWalk: the local player walks over the whole map, with and without   *)
(* destructible blocks, and arms a bomb on the way, all within the         *)
(* placement cooldown                                                      *)
(***************************************************************************)
InitWalk ==
    /\ InitWith({<<1, 1>>, <<13, 15>>}, {<<13, 1>>}, {{}, GridBlocks})
    /\ \A p \in Players : elementAt(player[p].x, player[p].y) \notin blocks

NextWalk == KeyDown(Keys, GRID_WIDTH)

SpecWalk == InitWalk /\ [][NextWalk]_vars

\* C27: wall cells never hold movable entities: the local player is never on
\* a parity wall, a border wall or a cell outside the movement bounds, and
\* no bomb it armed is on such a cell.
C27_NothingOnWalls ==
    /\ ~IsWall(player[storedPlayerId].x, player[storedPlayerId].y)
    /\ ~OutOfMoveBounds(player[storedPlayerId].x, player[storedPlayerId].y)
    /\ CellOfPx(player[storedPlayerId].playerElement.left) = player[storedPlayerId].x
    /\ CellOfPx(player[storedPlayerId].playerElement.top) = player[storedPlayerId].y
    /\ \A b \in bombs :
          b.owner = storedPlayerId
          => /\ ~IsWall(CellOfPx(b.left), CellOfPx(b.top))
             /\ ~OutOfMoveBounds(CellOfPx(b.left), CellOfPx(b.top))

\* the local player armed a bomb between two parity walls and walked on to a
\* cell next to the far border
C27_Witness ==
    /\ \E b \in bombs : b.owner = storedPlayerId /\ b.gridX = 3 /\ b.gridY = 2
    /\ player[storedPlayerId].x = 13
    /\ player[storedPlayerId].y = 14
    /\ out # <<>> /\ out[1].t = "keydown"


\* the elimination announcements a step sent outward about player p
AnnouncedEliminationsOf(o, p) ==
    {i \in RelaysIn(o) : /\ o[i].t \in {"player_eliminated", "PLAYER_ELIMINATED"}
                         /\ o[i].playerId = p}

\* C28: whenever an elimination announcement names the victim itself as the
\* attacker, whether the damage event said so or named no attacker, the step
\* also sends an elimination announcement with forceBroadcast set.
C28_SelfEliminationForcesBroadcast ==
    [][\A p \in Players :
          (\E e \in AnnouncedEliminationsOf(out', p) : out'[e].attackerId = p)
          => \E f \in AnnouncedEliminationsOf(out', p) :
                out'[f].t = "PLAYER_ELIMINATED" /\ out'[f].forceBroadcast]_vars


\* the outputs of kind t about player p (by its id field) that precede
\* output r of a step and follow output h
Between(o, t, p, h, r) ==
    {i \in DOMAIN o : h < i /\ i < r /\ o[i].t = t /\ o[i].id = p}

\* C29: a local action is applied to local state before it is announced
\* outward.  A MOVE carries the position already taken; a DROP_BOMB is sent
\* for a bomb already armed and counted; when PLAYER_HIT is sent for a
\* damage, the lives are lowered and the invulnerability window is open
\* (player:invulnerabilityStart precedes it); when COLLECT_POWERUP is sent,
\* the stat change of the power-up is made (player:statsUpdate precedes it).
C29_AppliedBeforeAnnounced ==
    [][\A r \in RelaysIn(out') :
          /\ out'[r].t = "MOVE"
             => /\ out'[r].x = player'[storedPlayerId].x
                /\ out'[r].y = player'[storedPlayerId].y
          /\ out'[r].t = "DROP_BOMB"
             => \E b \in bombs' : /\ b.gridX = out'[r].x /\ b.gridY = out'[r].y
                                  /\ b.fuse = fuseDuration
                                  /\ player'[b.owner].bombCooldown
                                  /\ player'[b.owner].activeBombs
                                        = player[b.owner].activeBombs + 1
          /\ (out'[r].t = "PLAYER_HIT" /\ out'[r - 1].t = "player:damaged")
             => /\ out'[r - 1].livesRemaining = player'[out'[r].playerId].lives
                /\ Between(out', "player:invulnerabilityStart", out'[r].playerId,
                           r - 2, r) # {}
          /\ out'[r].t = "COLLECT_POWERUP"
             => Between(out', "player:statsUpdate", out'[r].playerId, 1, r) # {}]_vars


\* a cell of the far border, inside the blast bounds
FarBorder(x, y) == (x = GRID_WIDTH \/ y = GRID_HEIGHT) /\ ~OutOfBlastBounds(x, y)

InitPickup ==
    /\ player = [p \in Players |->
                   IF p = storedPlayerId THEN newPlayer(1, 1) ELSE newPlayer(3, 1)]
    /\ bombs = {}
    /\ blocks = {elementAt(2, 1)}
    /\ blockRemovals = {}
    /\ spawnTimers = <<>>
    /\ powerups \in {<<>>, <<powerUpAt(1, 1, "flame")>>}
    /\ greenSpaces = {}
    /\ cooldownTimers = [p \in Players |-> {}]
    /\ removeTimers = [p \in Players |-> {}]
    /\ isGamePaused = FALSE
    /\ isGameOver = FALSE
    /\ out = <<>>

NextPickup ==
    \/ KeyDown({" ", "ArrowRight", "ArrowLeft"}, ArenaWidth)
    \/ RemoteSetPosition({<<2, 1>>})
    \/ PlayerTimers
    \/ BlockRemoveExpire
    \/ SpawnExpire({NoId, "flame"})

SpecPickup == InitPickup /\ [][NextPickup]_vars

\* the step is an accepted move of the local player onto cell (x, y)
AcceptedMoveOnto(x, y) ==
    /\ out' # <<>>
    /\ out'[1].t = "keydown"
    /\ out'[1].key # " "
    /\ isValidPosition(World, TargetX, TargetY)
    /\ TargetX = x /\ TargetY = y
    /\ player'[storedPlayerId].x = x /\ player'[storedPlayerId].y = y

\* the .powerup elements of ps as a bag, by cell and type
PowerUpCount(ps, el) == Cardinality({j \in 1..Len(ps) : ps[j] = el})

\* C31: a power-up is removed, COLLECT_POWERUP announced and its verified
\* application published only in a step that is an accepted move of the
\* local player onto the power-up's cell; in every other step (a spawn
\* under a player, a setPosition of the mirrored player, a rejected move, a
\* placement, a timer) no power-up leaves the document and nothing is
\* collected.
C31_CollectionOnlyByLocalMove ==
    [][/\ \A i \in Of(out', "COLLECT_POWERUP") :
             /\ out'[i].playerId = storedPlayerId
             /\ AcceptedMoveOnto(out'[i].x, out'[i].y)
             /\ PowerUpsAt(powerups, out'[i].x, out'[i].y) # {}
       /\ \A i \in Of(out', "powerup:applied") :
             \E c \in Of(out', "COLLECT_POWERUP") :
                 c < i /\ out'[c].powerupType = out'[i].type
       /\ \A j \in 1..Len(powerups) :
             PowerUpCount(powerups', powerups[j]) < PowerUpCount(powerups, powerups[j])
             => /\ AcceptedMoveOnto(CellOfPx(powerups[j].left),
                                    CellOfPx(powerups[j].top))
                /\ Of(out', "COLLECT_POWERUP") # {}]_vars

\* a power-up lies under the mirrored player, put there by setPosition or
\* spawned under it, and under the local player, which has not moved; none
\* was collected
C31_Witness ==
    /\ PowerUpsAt(powerups, player["p2"].x, player["p2"].y) # {}
    /\ player["p2"].x = 2
    /\ PowerUpsAt(powerups, player[storedPlayerId].x, player[storedPlayerId].y) # {}
    /\ player[storedPlayerId].explosionRange = initialExplosionRange


\* the bombs of player p whose fuse is pending
PendingOf(bs, p) == {b \in bs : b.owner = p}

\* C32: a player's activeBombs is the number of its bombs whose fuse is
\* pending, and so never negative; a placement adds exactly one bomb and one
\* to the counter, a fuse expiry removes exactly one of each, and when the
\* explosion of the expired bomb is created the bomb is already removed and
\* the counter already decremented.
C32_ActiveCountsPendingFuses ==
    [][\A p \in Players :
          /\ player'[p].activeBombs = Cardinality(PendingOf(bombs', p))
          /\ player'[p].activeBombs >= 0
          /\ ArmedBy(p) # {}
             => /\ Cardinality(ArmedBy(p)) = 1
                /\ PendingOf(bombs', p) = PendingOf(bombs, p) \cup ArmedBy(p)
                /\ player'[p].activeBombs = player[p].activeBombs + 1
          /\ DetonationOf(out', p)
             => /\ Cardinality(PendingOf(bombs, p) \ PendingOf(bombs', p)) = 1
                /\ PendingOf(bombs', p) \subseteq PendingOf(bombs, p)
                /\ player'[p].activeBombs = player[p].activeBombs - 1
                /\ CallsIn(out') = {2}
                /\ out'[2].activeBombs = player[p].activeBombs - 1
                /\ out'[2].bombsHere = 0
                /\ \A e \in Of(out', "explosion") : e > 2]_vars

\* one of two pending bombs of the local player has detonated
C32_Witness ==
    /\ DetonationOf(out, storedPlayerId)
    /\ out[2].activeBombs = 1
    /\ player[storedPlayerId].activeBombs = 1
    /\ Cardinality(PendingOf(bombs, storedPlayerId)) = 1


\* C33: one detonation lowers the lives of any one player by at most one and
\* reports at most one damage for it, however many player:hit events the
\* detonation publishes for that player.
C33_OneLifePerDetonation ==
    [][CallsIn(out') # {}
       => \A p \in Players :
             /\ player'[p].lives >= player[p].lives - 1
             /\ Cardinality(DamagedOf(out', p)) <= 1
             /\ DamagedOf(out', p) # {} => player'[p].invulnerable]_vars

\* the local player received two player:hit events from its own bomb and
\* lost one life
C33_Witness ==
    /\ DetonationOf(out, storedPlayerId)
    /\ Cardinality(HitsOn(out, storedPlayerId)) >= 2
    /\ Cardinality(DamagedOf(out, storedPlayerId)) = 1
    /\ player[storedPlayerId].lives = initialLives - 1


\* C34: once a player's lives are 0 or less, no movement or placement
\* request of that player is accepted: its position never changes again and
\* no new bomb of that player is armed.
C34_EliminatedPlayerIsInert ==
    [][\A p \in Players :
          player[p].lives <= 0
          => /\ player'[p].x = player[p].x
             /\ player'[p].y = player[p].y
             /\ ArmedBy(p) = {}]_vars

====
